---------------------------- MODULE Spec2Model ----------------------------
(***************************************************************************)
(* Model of the tax-planner frontend (Next.js pages and components) and of *)
(* the engine operations it calls.                                         *)
(*                                                                         *)
(* Units.  Money is held in whole cents.  annual_salary is held in units   *)
(* of $100.  A contribution percent is held in half-percent steps (the     *)
(* slider's step), so 13.5% is 27.  A projected contribution is held in    *)
(* "ticks" of 1/26 cent, so that annualSalary / 26 stays exact: the code's *)
(* double arithmetic is modelled by exact rational arithmetic.             *)
(***************************************************************************)
EXTENDS Integers, Sequences, FiniteSets

VARIABLES
    page,          \* the route that is mounted (Navigation navItems)
    formData,      \* Page401k: useState formData
    optimization,  \* Page401k: useMutation data (Null while undefined)
    pending,       \* Page401k: params of the optimizer request in flight
    percent,       \* ContributionSlider: useState percent
    projection,    \* Dashboard: useQuery(["taxProjection"]) data
    srvAnnual,     \* server: annual amount per jurisdiction of the projection
    srvPaid,       \* server: paid flag and paid amount per quarter
    estimates,     \* QuarterlyPage: useQuery(["quarterlyEstimates"]) data
    fetching,      \* QuarterlyPage: the estimates query is fetching
    fetchedOk,     \* QuarterlyPage: the last settled fetch succeeded
    editingQuarter,\* QuarterlyCalendar: useState editingQuarter
    paymentAmount, \* QuarterlyCalendar: useState paymentAmount (a string)
    inflight,      \* mark-paid requests sent and not yet settled
    sentCount,     \* the number of mark-paid requests sent so far
    lastApplied,   \* history: per quarter, the amount the store applied last
    carried,       \* history: per quarter, the amounts Save was clicked with
    raced,         \* history: quarters that had two requests in flight at once
    saveOutcome,   \* history: what the click on Save just did (else Null)
    srvEvents,     \* server: the stored RSU vesting events, in store order
    srvNextId,     \* server: the id the store gives the next event
    now,           \* server: today's date, a day number
    vestingSummary,\* RSUPage: useQuery(["rsuVestingSummary"]) data
    fetchingSummary,\* RSUPage: the summary query is fetching
    showManualForm,\* RSUPage: useState showManualForm
    editingEvent,  \* RSUPage: useState editingEvent
    rsuFormData,   \* RSUPage: useState formData
    rsuInflight,   \* RSUPage: mutation requests sent and not yet settled
    mutationCount, \* the number of RSU mutation requests sent so far
    taxInput,      \* engine: the arguments of the last tax request
    taxResult,     \* engine: what the last tax request returned
    ficaIncome,    \* engine: the income of the last fica request
    ficaResult,    \* engine: what the last fica request returned
    uploader,      \* the uploader component that is mounted ("none": none)
    file,          \* uploader: useState file (None while null)
    isDragging,    \* uploader: useState isDragging
    isUploading,   \* uploader: useState isUploading
    error,         \* uploader: useState error (None while null)
    uploadInflight,\* uploader: the files of the upload requests not yet settled
    uploadsStarted,\* the number of upload requests sent so far
    successCalls,  \* history: the number of calls of onUploadSuccess
    uploadOutcome, \* history: what handleUpload just did (else Null)
    etradeStatus,  \* SettingsPage: useState etradeStatus
    authUrlPending,\* SettingsPage: api.getEtradeAuthUrl() has not settled
    checkInterval, \* SettingsPage: the popup the running interval polls
    popupClosed,   \* browser: the window "etrade_auth" is closed
    pollCount,     \* the number of times the interval callback has run
    email,         \* SettingsPage: useState email
    testEmailSent, \* SettingsPage: useState testEmailSent
    testEmailPending \* SettingsPage: testEmailMutation.isPending

vars401k == <<formData, optimization, pending, percent>>
varsDashboard == <<projection>>
varsQuarterly == <<srvAnnual, srvPaid, estimates, fetching, fetchedOk,
                   editingQuarter, paymentAmount, inflight, sentCount,
                   lastApplied, carried, raced, saveOutcome>>

varsRSU == <<srvEvents, srvNextId, now, vestingSummary, fetchingSummary,
             showManualForm, editingEvent, rsuFormData, rsuInflight,
             mutationCount>>

varsEngine == <<taxInput, taxResult, ficaIncome, ficaResult>>

varsUpload == <<uploader, file, isDragging, isUploading, error,
                uploadInflight, uploadsStarted, successCalls, uploadOutcome>>

varsSettings == <<etradeStatus, authUrlPending, checkInterval, popupClosed,
                  pollCount, email, testEmailSent, testEmailPending>>

\* the state of the pages and components modelled further down
varsMore == <<varsRSU, varsEngine, varsUpload, varsSettings>>

vars == <<page, vars401k, varsDashboard, varsQuarterly, varsMore>>

\* an undefined or null object
Null == [null |-> TRUE]

\* an optional number (number | null | undefined) is <<>> or <<n>>
None == <<>>
Some(n) == <<n>>

Min(a, b) == IF a <= b THEN a ELSE b
Max(a, b) == IF a >= b THEN a ELSE b

---------------------------------------------------------------------------
(* Program constants *)

PeriodsPerYear == 26        \* annualSalary / 26, bi-weekly
PercentSteps == 2           \* half-percent steps per percent (step 0.5)
BaseLimit == 2350000        \* $23,500 elective deferral limit, in cents
CatchUpLimit == 750000      \* $7,500 catch-up, in cents
LimitWithCatchUp == 3100000 \* $31,000 shown by the page for age >= 50
CatchUpAge == 50
SliderMax == 75             \* <Slider max={75}>
InputMax == 100             \* Math.min(100, ...)

\* cents of one annual_salary unit ($100)
SalaryUnit == 100 * 100

Ticks(cents) == cents * PeriodsPerYear

---------------------------------------------------------------------------
(* Inputs the forms are driven with *)

Salaries == {1000, 4500}                     \* $100,000 and $450,000
YtdValues == {271155, 2400000, 3200000}      \* $2,711.55, $24,000, $32,000
PeriodValues == {0, 22}
Ages == {35, 49, 50}
CurrentPercents == {12, 30, 250}             \* 6%, 15% and 125%
TypedPercents == {-2, 11, 27, 250}           \* number-input values
SliderPercents == {0, 12, 150}               \* slider positions 0 .. 75%

Fields == {"annual_salary", "current_contribution_percent",
           "ytd_contribution", "remaining_pay_periods", "age"}

FieldValues(field) ==
    CASE field = "annual_salary" -> Salaries
      [] field = "current_contribution_percent" -> CurrentPercents
      [] field = "ytd_contribution" -> YtdValues
      [] field = "remaining_pay_periods" -> PeriodValues
      [] field = "age" -> Ages

---------------------------------------------------------------------------
(* Page401k: derived values of one render *)

DefaultFormData ==
    [annual_salary |-> 4500,
     current_contribution_percent |-> 12,
     ytd_contribution |-> 271155,
     remaining_pay_periods |-> 22,
     age |-> 35]

mockOptimization ==
    [current_contribution_percent |-> formData.current_contribution_percent,
     recommended_percent |-> 27,
     remaining_contribution_room |-> 2078845,
     max_contribution |-> BaseLimit,
     projected_year_end_contribution |-> Ticks(BaseLimit)]

result == IF optimization # Null THEN optimization ELSE mockOptimization

\* mutant: age exactly 50 is not eligible
CatchUpAtStrict(age) == age > CatchUpAge

CatchUpAt(age) == age >= CatchUpAge

catchUpEligible == CatchUpAt(formData.age)

effectiveMax == IF catchUpEligible THEN LimitWithCatchUp ELSE BaseLimit

\* the Remaining Room card
PageRemainingRoom == effectiveMax - formData.ytd_contribution

---------------------------------------------------------------------------
(* ContributionSlider: props as Page401k passes them, and derived values *)

annualSalary == formData.annual_salary
ytdContribution == formData.ytd_contribution
remainingPayPeriods == formData.remaining_pay_periods
maxContribution == BaseLimit

SliderEffectiveMax ==
    IF catchUpEligible THEN maxContribution + CatchUpLimit ELSE maxContribution

\* mutant: one pay period too many is counted
UncappedNextPeriod(ytd, salary, pct, periods) ==
    Ticks(ytd)
      + (salary * (SalaryUnit \div (100 * PercentSteps))) * pct * (periods + 1)

\* ytd + (annualSalary / 26) * (pct / 100) * periods, in ticks
Uncapped(ytd, salary, pct, periods) ==
    Ticks(ytd) + (salary * (SalaryUnit \div (100 * PercentSteps))) * pct * periods

\* mutant: the Math.min against effectiveMax is forgotten
CapAtUncapped(value, cap) == value

CapAt(value, cap) == Min(value, Ticks(cap))

\* calculateProjection: one point per pay period 0 .. remainingPayPeriods
calculateProjection(contributionPercent) ==
    [i \in 0..remainingPayPeriods |->
        [payPeriod |-> i,
         contribution |->
            CapAt(Uncapped(ytdContribution, annualSalary, contributionPercent, i),
                  SliderEffectiveMax),
         max |-> SliderEffectiveMax]]

projectionData == calculateProjection(percent)

projectedYearEnd ==
    CapAt(Uncapped(ytdContribution, annualSalary, percent, remainingPayPeriods),
          SliderEffectiveMax)

\* the slider's Remaining Room line
SliderRemainingRoom == SliderEffectiveMax - ytdContribution

\* mutant: the number input's value is taken as it is
ClampPercentOff(v) == v

\* Math.min(100, Math.max(0, Number(e.target.value)))
ClampPercent(v) == Min(InputMax * PercentSteps, Max(0, v))

---------------------------------------------------------------------------
(* The optimizer the page calls (POST /optimizer/401k) *)

Optimize(p) ==
    LET maxc == BaseLimit + (IF p.age >= CatchUpAge THEN CatchUpLimit ELSE 0)
        proj(pct) == CapAt(Uncapped(p.ytd_contribution, p.annual_salary, pct,
                                    p.remaining_pay_periods), maxc)
        full == proj(100 * PercentSteps)
        rec == IF p.remaining_pay_periods = 0
               THEN p.current_contribution_percent
               ELSE CHOOSE q \in 0..(100 * PercentSteps) :
                       /\ proj(q) = full
                       /\ \A r \in 0..(q - 1) : proj(r) # full
    IN  [current_contribution_percent |-> p.current_contribution_percent,
         recommended_percent |-> rec,
         remaining_contribution_room |-> Max(0, maxc - p.ytd_contribution),
         max_contribution |-> maxc,
         projected_year_end_contribution |-> proj(rec)]

---------------------------------------------------------------------------
(* Page401k and ContributionSlider: handlers *)

Mount401k ==
    /\ formData = DefaultFormData
    /\ optimization = Null
    /\ pending = Null
    /\ percent = DefaultFormData.current_contribution_percent

handleInputChange(field, value) ==
    /\ page = "/401k"
    /\ formData' = [formData EXCEPT ![field] = value]
    /\ UNCHANGED <<page, optimization, pending, percent>>
    /\ UNCHANGED <<varsDashboard, varsQuarterly, varsMore>>

\* the Calculate button: mutate() clears data and sends the current form
Calculate ==
    /\ page = "/401k"
    /\ pending = Null
    /\ pending' = formData
    /\ optimization' = Null
    /\ UNCHANGED <<page, formData, percent>>
    /\ UNCHANGED <<varsDashboard, varsQuarterly, varsMore>>

CalculateSettled(ok) ==
    /\ page = "/401k"
    /\ pending # Null
    /\ optimization' = IF ok THEN Optimize(pending) ELSE Null
    /\ pending' = Null
    /\ UNCHANGED <<page, formData, percent>>
    /\ UNCHANGED <<varsDashboard, varsQuarterly, varsMore>>

\* the number input of the slider card
PercentInputChange(v) ==
    /\ page = "/401k"
    /\ percent' = ClampPercent(v)
    /\ UNCHANGED <<page, formData, optimization, pending>>
    /\ UNCHANGED <<varsDashboard, varsQuarterly, varsMore>>

\* the slider itself
onValueChange(v) ==
    /\ page = "/401k"
    /\ v \in 0..(SliderMax * PercentSteps)
    /\ percent' = v
    /\ UNCHANGED <<page, formData, optimization, pending>>
    /\ UNCHANGED <<varsDashboard, varsQuarterly, varsMore>>

Next401k ==
    \/ \E field \in Fields : \E value \in FieldValues(field) :
          handleInputChange(field, value)
    \/ Calculate
    \/ \E ok \in BOOLEAN : CalculateSettled(ok)
    \/ \E v \in TypedPercents : PercentInputChange(v)
    \/ \E v \in SliderPercents : onValueChange(v)

---------------------------------------------------------------------------
(* Dashboard and TaxProjectionChart *)

RECURSIVE GCD(_, _)
GCD(a, b) == IF b = 0 THEN a ELSE GCD(b, a % b)

\* a rate is held as a fraction in lowest terms
Ratio(n, d) == LET g == GCD(n, d) IN [num |-> n \div g, den |-> d \div g]

ZeroRate == [num |-> 0, den |-> 1]

\* a division by zero raises: there is no quotient
ZeroDivisionError == [num |-> 0, den |-> 0]

Divide(n, d) == IF d = 0 THEN ZeroDivisionError ELSE Ratio(n, d)

mockProjection ==
    [gross_income |-> 45000000,
     federal_tax |-> 9850000,
     california_tax |-> 4230000,
     oklahoma_tax |-> 850000,
     fica_tax |-> 1875000,
     total_tax |-> 16805000,
     effective_rate |-> Ratio(373, 10),
     withheld_ytd |-> 14500000,
     projected_liability |-> 16805000,
     refund_or_owed |-> -2305000]

\* what the projection endpoint is asked to aggregate
ProjectionInputs ==
    [gross_income : {0, 45000000},
     federal_tax : {5000000, 9850000, 10000000},
     california_tax : {0, 4230000},
     oklahoma_tax : {0, 850000},
     fica_tax : {1875000, 2000000},
     withheld_ytd : {0, 6875000, 11725000, 14500000,
                     16804999, 16805000, 16805001, 20000000}]

\* mutant: the rate is computed without looking at gross_income
EffectiveRateUnguarded(total, gross) == Divide(total, gross)

\* effective_rate = total_tax / gross_income, 0 if gross_income = 0
EffectiveRate(total, gross) ==
    IF gross = 0 THEN ZeroRate ELSE Divide(total, gross)

\* the projection the engine returns (GET /tax/projection)
Project(inp) ==
    LET total == inp.federal_tax + inp.california_tax + inp.oklahoma_tax
                 + inp.fica_tax
    IN  [gross_income |-> inp.gross_income,
         federal_tax |-> inp.federal_tax,
         california_tax |-> inp.california_tax,
         oklahoma_tax |-> inp.oklahoma_tax,
         fica_tax |-> inp.fica_tax,
         total_tax |-> total,
         effective_rate |-> EffectiveRate(total, inp.gross_income),
         withheld_ytd |-> inp.withheld_ytd,
         projected_liability |-> total,
         refund_or_owed |-> inp.withheld_ytd - total]

data == IF projection # Null THEN projection ELSE mockProjection

\* Dashboard card: title "Projected Refund" (else "Additional Owed")
CardShowsRefund(d) == d.refund_or_owed >= 0

CardTitle(d) ==
    IF CardShowsRefund(d) THEN "Projected Refund" ELSE "Additional Owed"

CardValue(d) ==
    IF d.refund_or_owed >= 0 THEN d.refund_or_owed ELSE -d.refund_or_owed

\* chart, comparison tab: "Projected Refund" (else "Additional Tax Owed")
ChartShowsRefund(d) == d.withheld_ytd > d.projected_liability

ChartLabel(d) ==
    IF ChartShowsRefund(d) THEN "Projected Refund" ELSE "Additional Tax Owed"

ChartValue(d) ==
    IF ChartShowsRefund(d)
    THEN d.withheld_ytd - d.projected_liability
    ELSE d.projected_liability - d.withheld_ytd

MountDashboard == projection = Null

getProjectionSettled(inp) ==
    /\ page = "/"
    /\ projection' = Project(inp)
    /\ UNCHANGED <<page, vars401k, varsQuarterly, varsMore>>

NextDashboard == \E inp \in ProjectionInputs : getProjectionSettled(inp)

---------------------------------------------------------------------------
(* Quarterly estimates: the store behind the API, QuarterlyPage and         *)
(* QuarterlyCalendar.  Money is held in quarter-cents here, so that a      *)
(* whole-cent annual amount divided by 4 stays exact, as it does in binary *)
(* floating point.                                                         *)

MaxRequests == 2    \* mark-paid requests sent in one run of the model

QuarterCentsPerDollar == 4 * 100
Dollars(d) == d * QuarterCentsPerDollar

Quarters == 1..4
DueDates == <<"2025-04-15", "2025-06-15", "2025-09-15", "2026-01-15">>

\* a parsed number is NaN or Some(n)
NaN == None
isNaN(x) == x = NaN

(* Strings are sequences of one-character strings. *)

DigitChars == <<"0", "1", "2", "3", "4", "5", "6", "7", "8", "9">>
IsDigit(c) == \E k \in 1..10 : DigitChars[k] = c
DigitValue(c) == (CHOOSE k \in 1..10 : DigitChars[k] = c) - 1

RECURSIVE DigitRun(_, _)
\* the number of consecutive digits of s from position i on
DigitRun(s, i) ==
    IF i <= Len(s) /\ IsDigit(s[i]) THEN 1 + DigitRun(s, i + 1) ELSE 0

RECURSIVE DigitsValue(_, _, _)
\* the value of the n digits of s from position i on
DigitsValue(s, i, n) ==
    IF n = 0 THEN 0
    ELSE DigitsValue(s, i, n - 1) * 10 + DigitValue(s[i + n - 1])

RECURSIVE Pow10(_)
Pow10(k) == IF k = 0 THEN 1 ELSE 10 * Pow10(k - 1)

\* the first four fraction digits, in ten-thousandths of a dollar
FractionValue(s, i, n) ==
    LET k == Min(n, 4) IN DigitsValue(s, i, k) * Pow10(4 - k)

\* parseFloat of a decimal string: [sign] digits [. digits], the longest
\* such prefix; NaN when there is no digit
parseFloat(s) ==
    LET neg == Len(s) >= 1 /\ s[1] = "-"
        start == IF Len(s) >= 1 /\ s[1] \in {"-", "+"} THEN 2 ELSE 1
        nInt == DigitRun(s, start)
        dot == start + nInt
        hasDot == dot <= Len(s) /\ s[dot] = "."
        nFrac == IF hasDot THEN DigitRun(s, dot + 1) ELSE 0
        magnitude ==
            Dollars(DigitsValue(s, start, nInt))
            + FractionValue(s, dot + 1, nFrac)
              \div (10000 \div QuarterCentsPerDollar)
    IN  IF nInt = 0 /\ nFrac = 0 THEN NaN
        ELSE IF neg THEN Some(-magnitude) ELSE Some(magnitude)

RECURSIVE NatDigits(_)
NatDigits(n) ==
    IF n < 10 THEN <<DigitChars[n + 1]>>
    ELSE Append(NatDigits(n \div 10), DigitChars[(n % 10) + 1])

RECURSIVE StripZeros(_)
StripZeros(ds) ==
    IF ds # <<>> /\ ds[Len(ds)] = "0"
    THEN StripZeros(SubSeq(ds, 1, Len(ds) - 1))
    ELSE ds

Pad4(ds) == [k \in 1..(4 - Len(ds)) |-> "0"] \o ds

\* Number.prototype.toString of an amount
toString(n) ==
    LET m == IF n < 0 THEN -n ELSE n
        whole == NatDigits(m \div QuarterCentsPerDollar)
        frac == StripZeros(Pad4(NatDigits(
                    (m % QuarterCentsPerDollar)
                    * (10000 \div QuarterCentsPerDollar))))
        body == IF frac = <<>> THEN whole ELSE whole \o <<".">> \o frac
    IN  IF n < 0 THEN <<"-">> \o body ELSE body

\* what is typed into the "Amount paid" input
PaymentStrings ==
    {<<>>, <<"0">>, <<"-", "5">>, <<"2", "5", "0", ".", "5">>}

(* The store and the endpoints behind /quarterly *)

Unpaid == [paid |-> FALSE, paid_amount |-> None]

\* annual amounts per jurisdiction: 50000 / 21200 / 4400 dollars, and the
\* same plus 1, 2 and 3 cents
AnnualChoices ==
    {[federal |-> Dollars(50000), california |-> Dollars(21200),
      oklahoma |-> Dollars(4400)],
     [federal |-> Dollars(50000) + 4, california |-> Dollars(21200) + 8,
      oklahoma |-> Dollars(4400) + 12]}

InitialAnnual ==
    [federal |-> Dollars(50000), california |-> Dollars(21200),
     oklahoma |-> Dollars(4400)]

Jurisdictions == {"federal", "california", "oklahoma"}

\* one of four equal installments
Installment(annual) == annual \div 4

AnnualLiability(annual) ==
    annual.federal + annual.california + annual.oklahoma

\* estimates(annual_projection, due_dates): GET /quarterly/estimate
EstimatesOf(annual, paid) ==
    [q \in Quarters |->
        [quarter |-> q,
         due_date |-> DueDates[q],
         federal_amount |-> Installment(annual.federal),
         california_amount |-> Installment(annual.california),
         oklahoma_amount |-> Installment(annual.oklahoma),
         total_amount |-> Installment(annual.federal)
                          + Installment(annual.california)
                          + Installment(annual.oklahoma),
         paid |-> paid[q].paid,
         paid_amount |-> paid[q].paid_amount]]

\* mark_paid(quarter, amount): POST /quarterly/mark-paid
ValidMarkPaid(body) == body.quarter \in Quarters /\ body.amount >= 0

\* mutant: a second write to a paid quarter is merged into the first
ApplyMarkPaidMerged(paid, body) ==
    [paid EXCEPT ![body.quarter] =
        [paid |-> TRUE,
         paid_amount |-> IF paid[body.quarter].paid
                         THEN Some(paid[body.quarter].paid_amount[1]
                                   + body.amount)
                         ELSE Some(body.amount)]]

ApplyMarkPaid(paid, body) ==
    [paid EXCEPT ![body.quarter] =
        [paid |-> TRUE, paid_amount |-> Some(body.amount)]]

(* QuarterlyPage *)

MockEstimate(q, isPaid) ==
    [quarter |-> q,
     due_date |-> DueDates[q],
     federal_amount |-> Dollars(12500),
     california_amount |-> Dollars(5300),
     oklahoma_amount |-> Dollars(1100),
     total_amount |-> Dollars(18900),
     paid |-> isPaid,
     paid_amount |-> IF isPaid THEN Some(Dollars(18900)) ELSE None]

mockEstimates ==
    <<MockEstimate(1, TRUE), MockEstimate(2, FALSE), MockEstimate(3, FALSE),
      MockEstimate(4, FALSE)>>

displayEstimates == IF estimates # None THEN estimates ELSE mockEstimates

isLoading == fetching /\ estimates = None

RECURSIVE SumTotalAmount(_, _)
\* es.reduce((sum, e) => sum + e.total_amount, 0) over the first n estimates
SumTotalAmount(es, n) ==
    IF n = 0 THEN 0 ELSE SumTotalAmount(es, n - 1) + es[n].total_amount

RECURSIVE SumPaidAmount(_, _)
\* es.filter(e => e.paid).reduce((sum, e) => sum + (e.paid_amount || 0), 0)
SumPaidAmount(es, n) ==
    IF n = 0 THEN 0
    ELSE SumPaidAmount(es, n - 1)
         + (IF es[n].paid /\ es[n].paid_amount # None
            THEN es[n].paid_amount[1] ELSE 0)

\* mutant: only the unpaid quarters are added up
TotalOfUnpaid(es) ==
    SumTotalAmount(es, Len(es))
    - SumTotalAmount([q \in DOMAIN es |->
                        IF es[q].paid THEN es[q]
                        ELSE [es[q] EXCEPT !.total_amount = 0]], Len(es))

TotalOf(es) == SumTotalAmount(es, Len(es))

totalAnnual == TotalOf(displayEstimates)
totalPaid == SumPaidAmount(displayEstimates, Len(displayEstimates))
totalRemaining == totalAnnual - totalPaid

\* QuarterlyCalendar footer: Total Annual Estimated Tax
CalendarTotalAnnual == SumTotalAmount(displayEstimates, Len(displayEstimates))

PriorYearLiability == Dollars(165000)

\* "Required:" of the 110% prior-year card, in tenths of a quarter-cent
PriorYearRequired10 == PriorYearLiability * 11

\* "Required:" of the 90% current-year card (totalAnnual * 0.9 * 4), in
\* tenths of a quarter-cent
CurrentYearRequired10 == totalAnnual * 9 * 4

\* api.markQuarterlyPaid: the JSON body of the request
MarkPaidBody(quarter, amount) == [quarter |-> quarter, amount |-> amount]

\* mutant: the mutation's onSuccess does not invalidate the query
InvalidateSkipped(isFetching) == isFetching

\* queryClient.invalidateQueries: the mounted query refetches
InvalidateQueries(isFetching) == TRUE

(* QuarterlyCalendar *)

\* mutant: the controls are rendered for a paid quarter too
RenderedAlsoPaid(q) ==
    /\ ~isLoading
    /\ q \in DOMAIN displayEstimates

\* the row of quarter q shows the "Mark as Paid" controls
Rendered(q) ==
    /\ ~isLoading
    /\ q \in DOMAIN displayEstimates
    /\ ~displayEstimates[q].paid

\* the "(Paid: ...)" note of a row: estimate.paid && estimate.paid_amount
PaidNote(e) ==
    IF e.paid /\ e.paid_amount # None /\ e.paid_amount[1] # 0
    THEN e.paid_amount ELSE None

InFlight(q) == \E i \in DOMAIN inflight : inflight[i].quarter = q

RemoveAt(seq, i) == SubSeq(seq, 1, i - 1) \o SubSeq(seq, i + 1, Len(seq))

MountQuarterly ==
    /\ srvAnnual = InitialAnnual
    /\ srvPaid = [q \in Quarters |-> Unpaid]
    /\ estimates = None
    /\ fetching = TRUE
    /\ fetchedOk = FALSE
    /\ editingQuarter = None
    /\ paymentAmount = <<>>
    /\ inflight = <<>>
    /\ sentCount = 0
    /\ lastApplied = [q \in Quarters |-> None]
    /\ carried = [q \in Quarters |-> {}]
    /\ raced = {}
    /\ saveOutcome = Null

\* the estimates query settles: api.getQuarterlyEstimates
FetchSettled(ok) ==
    /\ page = "/quarterly"
    /\ fetching
    /\ fetching' = FALSE
    /\ fetchedOk' = ok
    /\ estimates' = IF ok THEN EstimatesOf(srvAnnual, srvPaid) ELSE estimates
    /\ saveOutcome' = Null
    /\ UNCHANGED <<page, vars401k, varsDashboard, varsMore, srvAnnual, srvPaid,
                   editingQuarter, paymentAmount, inflight, sentCount,
                   lastApplied, carried, raced>>

\* the "Mark as Paid" button of quarter q
ClickMarkAsPaid(q) ==
    /\ page = "/quarterly"
    /\ Rendered(q)
    /\ editingQuarter # Some(q)
    /\ editingQuarter' = Some(q)
    /\ paymentAmount' = toString(displayEstimates[q].total_amount)
    /\ saveOutcome' = Null
    /\ UNCHANGED <<page, vars401k, varsDashboard, varsMore, srvAnnual, srvPaid,
                   estimates, fetching, fetchedOk, inflight, sentCount,
                   lastApplied, carried, raced>>

\* the "Amount paid" input
ChangePaymentAmount(s) ==
    /\ page = "/quarterly"
    /\ editingQuarter # None
    /\ Rendered(editingQuarter[1])
    /\ paymentAmount' = s
    /\ saveOutcome' = Null
    /\ UNCHANGED <<page, vars401k, varsDashboard, varsMore, srvAnnual, srvPaid,
                   estimates, fetching, fetchedOk, editingQuarter, inflight,
                   sentCount, lastApplied, carried, raced>>

\* the Cancel button
CancelEdit ==
    /\ page = "/quarterly"
    /\ editingQuarter # None
    /\ Rendered(editingQuarter[1])
    /\ editingQuarter' = None
    /\ saveOutcome' = Null
    /\ UNCHANGED <<page, vars401k, varsDashboard, varsMore, srvAnnual, srvPaid,
                   estimates, fetching, fetchedOk, paymentAmount, inflight,
                   sentCount, lastApplied, carried, raced>>

\* the Save button: QuarterlyCalendar handleMarkPaid, then QuarterlyPage
\* handleMarkPaid and markPaidMutation.mutate, which sends the request
handleMarkPaid ==
    /\ page = "/quarterly"
    /\ editingQuarter # None
    /\ Rendered(editingQuarter[1])
    /\ LET quarter == editingQuarter[1]
           amount == parseFloat(paymentAmount)
       IN  IF ~isNaN(amount) /\ amount[1] > 0
           THEN /\ sentCount < MaxRequests
                /\ inflight' = Append(inflight, MarkPaidBody(quarter, amount[1]))
                /\ sentCount' = sentCount + 1
                /\ carried' = [carried EXCEPT
                                 ![quarter] = @ \cup {amount[1]}]
                /\ raced' = IF InFlight(quarter)
                            THEN raced \cup {quarter} ELSE raced
                /\ editingQuarter' = None
                /\ paymentAmount' = <<>>
                /\ saveOutcome' = [quarter |-> quarter, amount |-> amount,
                                   sent |-> TRUE]
           ELSE /\ saveOutcome' = [quarter |-> quarter, amount |-> amount,
                                   sent |-> FALSE]
                /\ UNCHANGED <<inflight, sentCount, carried, raced,
                               editingQuarter, paymentAmount>>
    /\ UNCHANGED <<page, vars401k, varsDashboard, varsMore, srvAnnual, srvPaid,
                   estimates, fetching, fetchedOk, lastApplied>>

\* request i reaches the server (or is lost), is validated and applied, and
\* the mutation settles: onSuccess invalidates the estimates query
MarkPaidSettled(i, delivered) ==
    /\ page = "/quarterly"
    /\ i \in DOMAIN inflight
    /\ inflight' = RemoveAt(inflight, i)
    /\ saveOutcome' = Null
    /\ LET body == inflight[i]
       IN  IF delivered /\ ValidMarkPaid(body)
           THEN /\ srvPaid' = ApplyMarkPaid(srvPaid, body)
                /\ lastApplied' = [lastApplied EXCEPT
                                     ![body.quarter] = Some(body.amount)]
                /\ fetching' = InvalidateQueries(fetching)
           ELSE UNCHANGED <<srvPaid, lastApplied, fetching>>
    /\ UNCHANGED <<page, vars401k, varsDashboard, varsMore, srvAnnual, estimates,
                   fetchedOk, editingQuarter, paymentAmount, sentCount,
                   carried, raced>>

\* the projection behind the estimates changes (new paystubs, new year-end
\* estimate): the estimates are generated afresh from it
RegenerateProjection(annual) ==
    /\ page = "/quarterly"
    /\ annual # srvAnnual
    /\ srvAnnual' = annual
    /\ saveOutcome' = Null
    /\ UNCHANGED <<page, vars401k, varsDashboard, varsMore, srvPaid, estimates,
                   fetching, fetchedOk, editingQuarter, paymentAmount,
                   inflight, sentCount, lastApplied, carried, raced>>

NextQuarterly ==
    \/ \E ok \in BOOLEAN : FetchSettled(ok)
    \/ \E q \in Quarters : ClickMarkAsPaid(q)
    \/ \E s \in PaymentStrings : ChangePaymentAmount(s)
    \/ CancelEdit
    \/ handleMarkPaid
    \/ \E i \in 1..MaxRequests : \E delivered \in BOOLEAN :
          MarkPaidSettled(i, delivered)
    \/ \E annual \in AnnualChoices : RegenerateProjection(annual)

---------------------------------------------------------------------------
(* RSU vesting: the event store and the summary behind the API, and        *)
(* RSUPage.  A date is held as a day number; of a vesting event the model  *)
(* keeps the fields its operations read: id, grant_id, vesting_date and    *)
(* shares_vesting.                                                         *)

MaxMutations == 2   \* RSU mutation requests sent in one run of the model
MaxDay == 4         \* the last day the server's clock reaches

VestingDays == 1..3
PageSize == 6

(* The store and the endpoints behind /rsu-vesting *)

\* the rows of the CSV file that is uploaded
CsvRows ==
    <<[grant_id |-> "G1", vesting_date |-> 3, shares_vesting |-> 125],
      [grant_id |-> "G1", vesting_date |-> 1, shares_vesting |-> 125],
      [grant_id |-> "G1", vesting_date |-> 2, shares_vesting |-> 40],
      [grant_id |-> "G3", vesting_date |-> 3, shares_vesting |-> 250],
      [grant_id |-> "G3", vesting_date |-> 1, shares_vesting |-> 250],
      [grant_id |-> "G3", vesting_date |-> 2, shares_vesting |-> 250],
      [grant_id |-> "G3", vesting_date |-> 3, shares_vesting |-> 10]>>

\* the stored event of a create or update request
StoredEvent(id, body) ==
    [id |-> id,
     grant_id |-> body.grant_id,
     vesting_date |-> body.vesting_date,
     shares_vesting |-> body.shares_vesting]

\* POST /rsu-vesting
CreateEvent(events, id, body) == Append(events, StoredEvent(id, body))

\* POST /rsu-vesting/upload-csv
UploadCsv(events, id, rows) ==
    events \o [k \in 1..Len(rows) |-> StoredEvent(id + k - 1, rows[k])]

HasEvent(events, id) == \E k \in DOMAIN events : events[k].id = id

\* PUT /rsu-vesting/{id}
UpdateEvent(events, id, body) ==
    [k \in DOMAIN events |->
        IF events[k].id = id THEN StoredEvent(id, body) ELSE events[k]]

\* DELETE /rsu-vesting/{id}
DeleteEvent(events, id) == SelectSeq(events, LAMBDA e : e.id # id)

\* mutant: an event vesting today counts as past as well
IsPastInclusive(e, today) == e.vesting_date <= today

\* the partition rule: vesting_date < now is past
IsPast(e, today) == e.vesting_date < today

IsUpcoming(e, today) == e.vesting_date >= today

RECURSIVE InsertByDate(_, _, _)
\* e put into the sorted list after the events that do not come later
InsertByDate(sorted, e, ascending) ==
    IF sorted = <<>> THEN <<e>>
    ELSE LET last == sorted[Len(sorted)]
             after == IF ascending
                      THEN last.vesting_date <= e.vesting_date
                      ELSE last.vesting_date >= e.vesting_date
         IN  IF after THEN Append(sorted, e)
             ELSE Append(InsertByDate(SubSeq(sorted, 1, Len(sorted) - 1),
                                      e, ascending), last)

RECURSIVE SortByDate(_, _)
\* a stable sort by vesting date
SortByDate(events, ascending) ==
    IF events = <<>> THEN <<>>
    ELSE InsertByDate(SortByDate(SubSeq(events, 1, Len(events) - 1),
                                 ascending),
                      events[Len(events)], ascending)

RECURSIVE SumShares(_)
SumShares(events) ==
    IF events = <<>> THEN 0
    ELSE SumShares(SubSeq(events, 1, Len(events) - 1))
         + events[Len(events)].shares_vesting

\* summarize(events, now): GET /rsu-vesting/summary
Summarize(events, today) ==
    LET pastEvents == SelectSeq(events, LAMBDA e : IsPast(e, today))
        upcomingEvents == SelectSeq(events, LAMBDA e : IsUpcoming(e, today))
        granted == SumShares(events)
        vested == SumShares(pastEvents)
    IN  [total_grants |->
            Cardinality({events[k].grant_id : k \in DOMAIN events}),
         total_shares_granted |-> granted,
         total_shares_vested |-> vested,
         total_shares_pending |-> granted - vested,
         upcoming_vests |-> SortByDate(upcomingEvents, TRUE),
         past_vests |-> SortByDate(pastEvents, FALSE)]

(* RSUPage *)

\* parseInt of a decimal string: [sign] digits, the longest such prefix
parseInt(s) ==
    LET neg == Len(s) >= 1 /\ s[1] = "-"
        start == IF Len(s) >= 1 /\ s[1] \in {"-", "+"} THEN 2 ELSE 1
        nInt == DigitRun(s, start)
        magnitude == DigitsValue(s, start, nInt)
    IN  IF nInt = 0 THEN NaN
        ELSE IF neg THEN Some(-magnitude) ELSE Some(magnitude)

\* event.shares_vesting.toString()
sharesToString(n) == IF n < 0 THEN <<"-">> \o NatDigits(-n) ELSE NatDigits(n)

EmptyForm == [grant_id |-> "", vesting_date |-> <<>>, shares_vesting |-> <<>>]

\* what is typed into the fields of the manual form
RsuFields == {"grant_id", "vesting_date", "shares_vesting"}

RsuFieldValues(field) ==
    CASE field = "grant_id" -> {"G2"}
      [] field = "vesting_date" -> {<<2>>}
      [] field = "shares_vesting" -> {<<"1", "0", "0">>}

\* the browser's validation of the form: required fields, shares min="1"
FormValid ==
    /\ rsuFormData.grant_id # ""
    /\ rsuFormData.vesting_date # <<>>
    /\ ~isNaN(parseInt(rsuFormData.shares_vesting))
    /\ parseInt(rsuFormData.shares_vesting)[1] >= 1

\* handleSubmit: eventData
eventData ==
    [grant_id |-> rsuFormData.grant_id,
     vesting_date |-> rsuFormData.vesting_date[1],
     shares_vesting |-> parseInt(rsuFormData.shares_vesting)[1]]

MutationPending(kind) ==
    \E i \in DOMAIN rsuInflight : rsuInflight[i].kind = kind

\* mutant: the page shows the last entries of a list
LastSix(list) == SubSeq(list, Max(1, Len(list) - PageSize + 1), Len(list))

\* list.slice(0, 6)
FirstSix(list) == SubSeq(list, 1, Min(PageSize, Len(list)))

UpcomingVests ==
    IF vestingSummary = None THEN <<>> ELSE vestingSummary[1].upcoming_vests

PastVests ==
    IF vestingSummary = None THEN <<>> ELSE vestingSummary[1].past_vests

\* the rows of "Upcoming Vesting Schedule" and of "Recent Vests"
UpcomingShown == FirstSix(UpcomingVests)
PastShown == FirstSix(PastVests)

\* one chart point per upcoming vest
chartData ==
    [k \in DOMAIN UpcomingVests |->
        [date |-> UpcomingVests[k].vesting_date,
         shares |-> UpcomingVests[k].shares_vesting]]

\* mutant: the pending figure is taken from the granted total
TotalsPendingGranted(summary) ==
    [shares |-> summary.total_shares_granted,
     vested |-> summary.total_shares_vested,
     pending |-> summary.total_shares_granted]

TotalsOf(summary) ==
    [shares |-> summary.total_shares_granted,
     vested |-> summary.total_shares_vested,
     pending |-> summary.total_shares_pending]

totals ==
    IF vestingSummary # None THEN TotalsOf(vestingSummary[1])
    ELSE [shares |-> 0, vested |-> 0, pending |-> 0]

\* the events that have an edit button: the rows of the two lists and of
\* the "All Vesting Events" table
Range(list) == {list[k] : k \in DOMAIN list}

EditRows ==
    Range(UpcomingShown) \cup Range(PastShown)
    \cup Range(UpcomingVests) \cup Range(PastVests)

\* the events that have a delete button: upcoming rows and table rows
DeleteRows ==
    Range(UpcomingShown) \cup Range(UpcomingVests) \cup Range(PastVests)

MountRSU ==
    /\ srvEvents = <<>>
    /\ srvNextId = 1
    /\ now = 1
    /\ vestingSummary = None
    /\ fetchingSummary = TRUE
    /\ showManualForm = FALSE
    /\ editingEvent = None
    /\ rsuFormData = EmptyForm
    /\ rsuInflight = <<>>
    /\ mutationCount = 0

varsOffRSU == <<vars401k, varsDashboard, varsQuarterly, varsEngine,
                varsUpload, varsSettings>>

\* a day passes on the server
DayPasses ==
    /\ page = "/rsu"
    /\ now < MaxDay
    /\ now' = now + 1
    /\ UNCHANGED <<page, varsOffRSU, srvEvents, srvNextId, vestingSummary,
                   fetchingSummary, showManualForm, editingEvent,
                   rsuFormData, rsuInflight, mutationCount>>

\* the summary query settles: api.getRSUVestingSummary
FetchSummarySettled(ok) ==
    /\ page = "/rsu"
    /\ fetchingSummary
    /\ fetchingSummary' = FALSE
    /\ vestingSummary' = IF ok THEN Some(Summarize(srvEvents, now))
                         ELSE vestingSummary
    /\ UNCHANGED <<page, varsOffRSU, srvEvents, srvNextId, now,
                   showManualForm, editingEvent, rsuFormData, rsuInflight,
                   mutationCount>>

\* mutant: the button only shows and hides the form, resetForm is not called
ToggleManualFormOnly ==
    /\ page = "/rsu"
    /\ showManualForm' = ~showManualForm
    /\ UNCHANGED <<page, varsOffRSU, srvEvents, srvNextId, now,
                   vestingSummary, fetchingSummary, rsuInflight,
                   mutationCount, rsuFormData, editingEvent>>

\* the "Add Vesting Event" / "Cancel" button of the Manual Entry card
ToggleManualForm ==
    /\ page = "/rsu"
    /\ IF showManualForm
       THEN /\ rsuFormData' = EmptyForm
            /\ editingEvent' = None
            /\ showManualForm' = FALSE
       ELSE /\ showManualForm' = TRUE
            /\ UNCHANGED <<rsuFormData, editingEvent>>
    /\ UNCHANGED <<page, varsOffRSU, srvEvents, srvNextId, now,
                   vestingSummary, fetchingSummary, rsuInflight,
                   mutationCount>>

\* the inputs of the manual form
ChangeRsuField(field, value) ==
    /\ page = "/rsu"
    /\ showManualForm
    /\ rsuFormData' = [rsuFormData EXCEPT ![field] = value]
    /\ UNCHANGED <<page, varsOffRSU, srvEvents, srvNextId, now,
                   vestingSummary, fetchingSummary, showManualForm,
                   editingEvent, rsuInflight, mutationCount>>

\* the edit button of a row
handleEdit(event) ==
    /\ page = "/rsu"
    /\ editingEvent' = Some(event)
    /\ rsuFormData' = [grant_id |-> event.grant_id,
                       vesting_date |-> Some(event.vesting_date),
                       shares_vesting |-> sharesToString(event.shares_vesting)]
    /\ showManualForm' = TRUE
    /\ UNCHANGED <<page, varsOffRSU, srvEvents, srvNextId, now,
                   vestingSummary, fetchingSummary, rsuInflight,
                   mutationCount>>

\* the Cancel button of the form: resetForm
resetForm ==
    /\ page = "/rsu"
    /\ showManualForm
    /\ rsuFormData' = EmptyForm
    /\ editingEvent' = None
    /\ showManualForm' = FALSE
    /\ UNCHANGED <<page, varsOffRSU, srvEvents, srvNextId, now,
                   vestingSummary, fetchingSummary, rsuInflight,
                   mutationCount>>

\* the form's submit button: handleSubmit, then updateMutation.mutate or
\* createMutation.mutate
handleSubmit ==
    /\ page = "/rsu"
    /\ showManualForm
    /\ FormValid
    /\ ~MutationPending("create")
    /\ ~MutationPending("update")
    /\ mutationCount < MaxMutations
    /\ mutationCount' = mutationCount + 1
    /\ rsuInflight' =
          Append(rsuInflight,
                 IF editingEvent # None
                 THEN [kind |-> "update", eventId |-> editingEvent[1].id,
                       event |-> eventData]
                 ELSE [kind |-> "create", eventId |-> 0,
                       event |-> eventData])
    /\ UNCHANGED <<page, varsOffRSU, srvEvents, srvNextId, now,
                   vestingSummary, fetchingSummary, showManualForm,
                   editingEvent, rsuFormData>>

\* the delete button of a row, confirmed: deleteMutation.mutate
ClickDelete(event) ==
    /\ page = "/rsu"
    /\ mutationCount < MaxMutations
    /\ mutationCount' = mutationCount + 1
    /\ rsuInflight' = Append(rsuInflight,
                             [kind |-> "delete", eventId |-> event.id,
                              event |-> Null])
    /\ UNCHANGED <<page, varsOffRSU, srvEvents, srvNextId, now,
                   vestingSummary, fetchingSummary, showManualForm,
                   editingEvent, rsuFormData>>

\* RSUUploader sends the CSV file: api.uploadRSUCSV
UploadCsvFile ==
    /\ page = "/rsu"
    /\ mutationCount < MaxMutations
    /\ mutationCount' = mutationCount + 1
    /\ rsuInflight' = Append(rsuInflight,
                             [kind |-> "upload", eventId |-> 0,
                              event |-> Null])
    /\ UNCHANGED <<page, varsOffRSU, srvEvents, srvNextId, now,
                   vestingSummary, fetchingSummary, showManualForm,
                   editingEvent, rsuFormData>>

\* the server accepts the request: updates and deletes need a stored event
Accepted(request) ==
    request.kind \in {"update", "delete"} =>
        HasEvent(srvEvents, request.eventId)

\* request i is served (or lost) and its mutation settles; onSuccess
\* invalidates the queries and, for create and update, resets the form
RsuMutationSettled(i, delivered) ==
    /\ page = "/rsu"
    /\ i \in DOMAIN rsuInflight
    /\ rsuInflight' = RemoveAt(rsuInflight, i)
    /\ LET request == rsuInflight[i]
       IN  IF delivered /\ Accepted(request)
           THEN /\ srvEvents' =
                      CASE request.kind = "create" ->
                             CreateEvent(srvEvents, srvNextId, request.event)
                        [] request.kind = "update" ->
                             UpdateEvent(srvEvents, request.eventId,
                                         request.event)
                        [] request.kind = "delete" ->
                             DeleteEvent(srvEvents, request.eventId)
                        [] request.kind = "upload" ->
                             UploadCsv(srvEvents, srvNextId, CsvRows)
                /\ srvNextId' =
                      CASE request.kind = "create" -> srvNextId + 1
                        [] request.kind = "upload" -> srvNextId + Len(CsvRows)
                        [] OTHER -> srvNextId
                /\ fetchingSummary' = InvalidateQueries(fetchingSummary)
                /\ IF request.kind \in {"create", "update"}
                   THEN /\ rsuFormData' = EmptyForm
                        /\ editingEvent' = None
                        /\ showManualForm' = FALSE
                   ELSE UNCHANGED <<rsuFormData, editingEvent, showManualForm>>
           ELSE UNCHANGED <<srvEvents, srvNextId, fetchingSummary,
                            rsuFormData, editingEvent, showManualForm>>
    /\ UNCHANGED <<page, varsOffRSU, now, vestingSummary, mutationCount>>

NextRSU ==
    \/ DayPasses
    \/ \E ok \in BOOLEAN : FetchSummarySettled(ok)
    \/ ToggleManualForm
    \/ \E field \in RsuFields : \E value \in RsuFieldValues(field) :
          ChangeRsuField(field, value)
    \/ \E event \in EditRows : handleEdit(event)
    \/ resetForm
    \/ handleSubmit
    \/ \E event \in DeleteRows : ClickDelete(event)
    \/ UploadCsvFile
    \/ \E i \in 1..MaxMutations : \E delivered \in BOOLEAN :
          RsuMutationSettled(i, delivered)

---------------------------------------------------------------------------
(* The engine's calculators: tax(income, table, deduction) and             *)
(* fica(income, config).  Incomes, bracket bounds and deductions are held  *)
(* in whole dollars and bracket rates in percent, so a bracket tax is in   *)
(* cents; FICA rates are held in hundredths of a percent, so a FICA amount *)
(* is in hundredths of a cent.                                             *)

\* an upper bound is Some(dollars), or None for the unbounded top bracket
Bracket(upper, rate) == [upper_bound |-> upper, rate |-> rate]

\* mutant: the 2025 brackets of a single filer
FederalSingle ==
    <<Bracket(Some(11925), 10), Bracket(Some(48475), 12),
      Bracket(Some(103350), 22), Bracket(Some(197300), 24),
      Bracket(Some(250525), 32), Bracket(Some(626350), 35),
      Bracket(None, 37)>>

\* 2025 Federal Tax Brackets (MFJ)
FederalMFJ ==
    <<Bracket(Some(23850), 10), Bracket(Some(96950), 12),
      Bracket(Some(206700), 22), Bracket(Some(394600), 24),
      Bracket(Some(501050), 32), Bracket(Some(751600), 35),
      Bracket(None, 37)>>

\* a table whose rates are not monotonic and include 0
NonMonotonicTable ==
    <<Bracket(Some(23850), 10), Bracket(Some(96950), 30),
      Bracket(Some(206700), 0), Bracket(None, 5)>>

BracketTables == <<FederalMFJ, NonMonotonicTable>>

Incomes ==
    {-1, 0, 1, 23850, 23851, 53850, 96950, 96951, 126950, 206700, 236700,
     751600, 1000000}

Deductions == {0, 30000}

PreviousUpper(table, k) == IF k = 1 THEN 0 ELSE table[k - 1].upper_bound[1]

\* mutant: the part of a bracket above the taxable amount is not cut off
PortionUnclamped(taxable, prev, upper) ==
    (IF upper = None THEN taxable ELSE Min(taxable, upper[1])) - prev

\* mutant: the dollar at a threshold belongs to the bracket above it
PortionFromThreshold(taxable, prev, upper) ==
    LET lo == Max(prev, 1)
        hi == IF upper = None THEN taxable ELSE Min(taxable, upper[1] - 1)
    IN  Max(0, hi - lo + 1)

\* the amount of taxable between the previous upper bound and this one
Portion(taxable, prev, upper) ==
    Max(0, (IF upper = None THEN taxable ELSE Min(taxable, upper[1])) - prev)

\* one contribution per bracket, none skipped
Contributions(table, taxable) ==
    [k \in DOMAIN table |->
        Portion(taxable, PreviousUpper(table, k), table[k].upper_bound)
        * table[k].rate]

RECURSIVE SumSeq(_)
SumSeq(seq) ==
    IF seq = <<>> THEN 0
    ELSE SumSeq(SubSeq(seq, 1, Len(seq) - 1)) + seq[Len(seq)]

InvalidInput ==
    [status |-> "InvalidInput", taxable |-> None, contributions |-> <<>>,
     tax |-> None]

\* mutant: a negative income is treated as no income
taxClamping(income, table, deduction) ==
    LET taxable == Max(0, income - deduction)
        parts == Contributions(table, taxable)
    IN  [status |-> "ok", taxable |-> Some(taxable), contributions |-> parts,
         tax |-> Some(SumSeq(parts))]

\* tax(income, table, deduction)
tax(income, table, deduction) ==
    IF income < 0 THEN InvalidInput
    ELSE LET taxable == Max(0, income - deduction)
             parts == Contributions(table, taxable)
         IN  [status |-> "ok", taxable |-> Some(taxable),
              contributions |-> parts, tax |-> Some(SumSeq(parts))]

\* mutant: the Social Security wage base of the year before
FicaConfigStaleWageBase ==
    [ss_rate |-> 620, wage_base |-> 168600, medicare_rate |-> 145,
     additional_rate |-> 90, additional_threshold |-> 250000]

\* mutant: the Additional Medicare threshold of a single filer
FicaConfigSingleFiler ==
    [ss_rate |-> 620, wage_base |-> 176100, medicare_rate |-> 145,
     additional_rate |-> 90, additional_threshold |-> 200000]

\* 2025 FICA: 6.2% up to $176,100, 1.45%, 0.9% over $250,000 (MFJ)
FicaConfig2025 ==
    [ss_rate |-> 620, wage_base |-> 176100, medicare_rate |-> 145,
     additional_rate |-> 90, additional_threshold |-> 250000]

WageIncomes ==
    {0, 1, 100000, 176099, 176100, 176101, 200000, 200001, 249999, 250000,
     250001, 1000000}

\* fica(income, config)
fica(income, config) ==
    LET social_security == Min(income, config.wage_base) * config.ss_rate
        medicare == income * config.medicare_rate
        additional_medicare ==
            Max(0, income - config.additional_threshold)
            * config.additional_rate
    IN  [social_security |-> social_security,
         medicare |-> medicare,
         additional_medicare |-> additional_medicare,
         total |-> social_security + medicare + additional_medicare]

MountEngine ==
    /\ taxInput = Null
    /\ taxResult = Null
    /\ ficaIncome = None
    /\ ficaResult = Null

varsOffEngine == <<vars401k, varsDashboard, varsQuarterly, varsRSU,
                   varsUpload, varsSettings>>

\* a caller asks for the tax on an income
TaxRequested(income, t, deduction) ==
    /\ page = "/api"
    /\ taxInput' = [income |-> income, table |-> t, deduction |-> deduction]
    /\ taxResult' = tax(income, BracketTables[t], deduction)
    /\ UNCHANGED <<page, varsOffEngine, ficaIncome, ficaResult>>

\* a caller asks for the FICA taxes on a wage income
FicaRequested(income) ==
    /\ page = "/api"
    /\ ficaIncome' = Some(income)
    /\ ficaResult' = fica(income, FicaConfig2025)
    /\ UNCHANGED <<page, varsOffEngine, taxInput, taxResult>>

NextEngine ==
    \/ \E income \in Incomes : \E t \in DOMAIN BracketTables :
          \E deduction \in Deductions : TaxRequested(income, t, deduction)
    \/ \E income \in WageIncomes : FicaRequested(income)

---------------------------------------------------------------------------
(* PaystubUploader and RSUUploader.  The two components differ in the file *)
(* they accept, in the controls they render and in the message of the      *)
(* error api.uploadPaystub and api.uploadRSUCSV throw; the variable        *)
(* uploader tells which of the two is mounted.  A File is its name, a      *)
(* sequence of characters, and its type.                                   *)

MaxUploads == 2

Uploaders == {"PaystubUploader", "RSUUploader"}

File(name, type) == [name |-> name, type |-> type]

Files ==
    {File(<<"p", ".", "p", "d", "f">>, "application/pdf"),
     File(<<"w", ".", "p", "d", "f">>, "application/pdf"),
     File(<<"v", ".", "c", "s", "v">>, "text/csv"),
     File(<<"g", ".", "c", "s", "v">>, "application/vnd.ms-excel"),
     File(<<"n", ".", "t", "x", "t">>, "text/plain")}

\* e.dataTransfer.files[0] and e.target.files?.[0]: a file, or undefined
PickedFiles == {None} \cup {Some(f) : f \in Files}

\* String.prototype.endsWith
EndsWith(s, suffix) ==
    /\ Len(s) >= Len(suffix)
    /\ SubSeq(s, Len(s) - Len(suffix) + 1, Len(s)) = suffix

IsPdf(f) == f # None /\ f[1].type = "application/pdf"

IsCsv(f) ==
    f # None /\ (\/ f[1].type = "text/csv"
                 \/ EndsWith(f[1].name, <<".", "c", "s", "v">>))

\* mutant: every file picked is taken
AcceptsAnyFile(f) == f # None

\* the test of handleDrop and handleFileSelect
Accepts(f) == IF uploader = "PaystubUploader" THEN IsPdf(f) ELSE IsCsv(f)

RejectMessage ==
    IF uploader = "PaystubUploader"
    THEN "Please upload a PDF file"
    ELSE "Please upload a CSV file"

\* how the upload request ends: the response is ok; it is not ok and its
\* body is JSON with a detail, JSON without a detail, or not JSON; or fetch
\* itself rejects
Responses == {"ok", "detail", "nodetail", "nojson", "network"}

\* the message of the Error the api function throws; new Error(undefined)
\* has the message ""
ThrownMessage(response) ==
    CASE response = "detail" -> "Invalid file"
      [] response = "nojson" -> "Upload failed"
      [] response = "network" -> "Failed to fetch"
      [] response = "nodetail" ->
            IF uploader = "PaystubUploader" THEN "" ELSE "Upload failed"

\* the file input: PaystubUploader renders it only while no file is selected
FileInputRendered == uploader = "RSUUploader" \/ file = None

\* the X button: rendered with the file, RSUUploader disables it
ClearEnabled ==
    file # None /\ (uploader = "RSUUploader" => ~isUploading)

\* mutant: the Upload button is never disabled
UploadNeverDisabled == FALSE

\* disabled={isUploading}
UploadDisabled == isUploading

MountUpload ==
    /\ file = None
    /\ isDragging = FALSE
    /\ isUploading = FALSE
    /\ error = None
    /\ uploadInflight = <<>>
    /\ uploadsStarted = 0
    /\ successCalls = 0
    /\ uploadOutcome = Null

varsOffUpload ==
    <<page, uploader, vars401k, varsDashboard, varsQuarterly, varsRSU,
      varsEngine, varsSettings>>

handleDragOver ==
    /\ uploader \in Uploaders
    /\ isDragging' = TRUE
    /\ uploadOutcome' = Null
    /\ UNCHANGED <<varsOffUpload, file, isUploading, error, uploadInflight,
                   uploadsStarted, successCalls>>

handleDragLeave ==
    /\ uploader \in Uploaders
    /\ isDragging' = FALSE
    /\ uploadOutcome' = Null
    /\ UNCHANGED <<varsOffUpload, file, isUploading, error, uploadInflight,
                   uploadsStarted, successCalls>>

\* setError(null), then the file is taken or the error is set
TakeFile(f) ==
    /\ file' = IF Accepts(f) THEN f ELSE file
    /\ error' = IF Accepts(f) THEN None ELSE Some(RejectMessage)

handleDrop(droppedFile) ==
    /\ uploader \in Uploaders
    /\ isDragging' = FALSE
    /\ TakeFile(droppedFile)
    /\ uploadOutcome' = Null
    /\ UNCHANGED <<varsOffUpload, isUploading, uploadInflight,
                   uploadsStarted, successCalls>>

handleFileSelect(selectedFile) ==
    /\ uploader \in Uploaders
    /\ FileInputRendered
    /\ TakeFile(selectedFile)
    /\ uploadOutcome' = Null
    /\ UNCHANGED <<varsOffUpload, isDragging, isUploading, uploadInflight,
                   uploadsStarted, successCalls>>

clearFile ==
    /\ uploader \in Uploaders
    /\ ClearEnabled
    /\ file' = None
    /\ error' = None
    /\ uploadOutcome' = Null
    /\ UNCHANGED <<varsOffUpload, isDragging, isUploading, uploadInflight,
                   uploadsStarted, successCalls>>

\* what one run of handleUpload, or of its continuation, did
Outcome(step, sent, fileAfter, errorAfter, uploadingAfter, sentAfter, calls) ==
    [step |-> step, sent |-> sent,
     fileBefore |-> file, fileAfter |-> fileAfter,
     errorBefore |-> error, errorAfter |-> errorAfter,
     uploadingBefore |-> isUploading, uploadingAfter |-> uploadingAfter,
     requests |-> Len(sentAfter) - Len(uploadInflight),
     calls |-> calls - successCalls]

\* handleUpload up to its await: the Upload button, which is rendered with
\* the file, or a call with no file selected
handleUpload ==
    /\ uploader \in Uploaders
    /\ file # None => ~UploadDisabled
    /\ uploadsStarted < MaxUploads
    /\ IF file = None
       THEN UNCHANGED <<file, isUploading, error, uploadInflight,
                        uploadsStarted>>
       ELSE /\ isUploading' = TRUE
            /\ error' = None
            /\ uploadInflight' = Append(uploadInflight, file[1])
            /\ uploadsStarted' = uploadsStarted + 1
            /\ UNCHANGED file
    /\ UNCHANGED <<varsOffUpload, isDragging, successCalls>>
    /\ uploadOutcome' = Outcome("called", file, file', error', isUploading',
                                uploadInflight', successCalls')

\* the api call of request i settles and handleUpload runs to its end
UploadSettled(i, response) ==
    /\ uploader \in Uploaders
    /\ i \in DOMAIN uploadInflight
    /\ uploadInflight' = RemoveAt(uploadInflight, i)
    /\ IF response = "ok"
       THEN /\ file' = None
            /\ successCalls' = successCalls + 1
            /\ UNCHANGED error
       ELSE /\ error' = Some(ThrownMessage(response))
            /\ UNCHANGED <<file, successCalls>>
    /\ isUploading' = FALSE
    /\ uploadOutcome' = Outcome(response, Some(uploadInflight[i]), file',
                                error', isUploading', uploadInflight',
                                successCalls')
    /\ UNCHANGED <<varsOffUpload, isDragging, uploadsStarted>>

NextUpload ==
    \/ handleDragOver
    \/ handleDragLeave
    \/ \E droppedFile \in PickedFiles : handleDrop(droppedFile)
    \/ \E selectedFile \in PickedFiles : handleFileSelect(selectedFile)
    \/ clearFile
    \/ handleUpload
    \/ \E i \in 1..MaxUploads : \E response \in Responses :
          UploadSettled(i, response)

---------------------------------------------------------------------------
(* SettingsPage: the E*Trade connection and the test email *)

MaxPolls == 3

\* what window.open returned to the running interval: null when the browser
\* blocked the popup, else the window named "etrade_auth"
Popups == {"null", "window"}

EmailValues == {"", "me@example.com", "you@example.com"}

MountSettings ==
    /\ etradeStatus = "disconnected"
    /\ authUrlPending = FALSE
    /\ checkInterval = None
    /\ popupClosed = TRUE
    /\ pollCount = 0
    /\ email = ""
    /\ testEmailSent = FALSE
    /\ testEmailPending = FALSE

varsOffSettings ==
    <<page, vars401k, varsDashboard, varsQuarterly, varsRSU, varsEngine,
      varsUpload>>

\* the Connect button, shown unless connected and disabled while connecting
handleConnectETrade ==
    /\ page = "/settings"
    /\ etradeStatus = "disconnected"
    /\ etradeStatus' = "connecting"
    /\ authUrlPending' = TRUE
    /\ UNCHANGED <<varsOffSettings, checkInterval, popupClosed, pollCount,
                   email, testEmailSent, testEmailPending>>

\* api.getEtradeAuthUrl() settles: the popup is opened and the interval is
\* set, or the catch block runs
AuthUrlSettled(ok, popup) ==
    /\ page = "/settings"
    /\ authUrlPending
    /\ authUrlPending' = FALSE
    /\ IF ok
       THEN /\ checkInterval' = Some(popup)
            /\ popupClosed' = IF popup = "window" THEN FALSE ELSE popupClosed
            /\ pollCount' = 0
            /\ UNCHANGED etradeStatus
       ELSE /\ etradeStatus' = "disconnected"
            /\ UNCHANGED <<checkInterval, popupClosed, pollCount>>
    /\ UNCHANGED <<varsOffSettings, email, testEmailSent, testEmailPending>>

\* the user closes the popup window
ClosePopup ==
    /\ page = "/settings"
    /\ ~popupClosed
    /\ popupClosed' = TRUE
    /\ UNCHANGED <<varsOffSettings, etradeStatus, authUrlPending,
                   checkInterval, pollCount, email, testEmailSent,
                   testEmailPending>>

\* popup?.closed
PopupSeenClosed == checkInterval = Some("window") /\ popupClosed

\* the interval callback runs, once a second
PollTick ==
    /\ page = "/settings"
    /\ checkInterval # None
    /\ pollCount' = Min(pollCount + 1, MaxPolls)
    /\ IF PopupSeenClosed
       THEN /\ checkInterval' = None
            /\ etradeStatus' = "connected"
       ELSE UNCHANGED <<checkInterval, etradeStatus>>
    /\ UNCHANGED <<varsOffSettings, authUrlPending, popupClosed, email,
                   testEmailSent, testEmailPending>>

\* the Disconnect button, shown while connected
handleDisconnectETrade ==
    /\ page = "/settings"
    /\ etradeStatus = "connected"
    /\ etradeStatus' = "disconnected"
    /\ UNCHANGED <<varsOffSettings, authUrlPending, checkInterval,
                   popupClosed, pollCount, email, testEmailSent,
                   testEmailPending>>

ChangeEmail(value) ==
    /\ page = "/settings"
    /\ email' = value
    /\ UNCHANGED <<varsOffSettings, etradeStatus, authUrlPending,
                   checkInterval, popupClosed, pollCount, testEmailSent,
                   testEmailPending>>

\* the Test button: disabled={!email || testEmailMutation.isPending}
handleTestEmail ==
    /\ page = "/settings"
    /\ email # ""
    /\ ~testEmailPending
    /\ testEmailPending' = TRUE
    /\ UNCHANGED <<varsOffSettings, etradeStatus, authUrlPending,
                   checkInterval, popupClosed, pollCount, email,
                   testEmailSent>>

TestEmailSettled(ok) ==
    /\ page = "/settings"
    /\ testEmailPending
    /\ testEmailPending' = FALSE
    /\ testEmailSent' = (ok \/ testEmailSent)
    /\ UNCHANGED <<varsOffSettings, etradeStatus, authUrlPending,
                   checkInterval, popupClosed, pollCount, email>>

NextSettings ==
    \/ handleConnectETrade
    \/ \E ok \in BOOLEAN : \E popup \in Popups : AuthUrlSettled(ok, popup)
    \/ ClosePopup
    \/ PollTick
    \/ handleDisconnectETrade
    \/ \E value \in EmailValues : ChangeEmail(value)
    \/ handleTestEmail
    \/ \E ok \in BOOLEAN : TestEmailSettled(ok)

---------------------------------------------------------------------------
(* QuarterlyCalendar getQuarterStatus and the Dashboard's overdue alert.   *)
(* An instant is held in half days since 2025-01-01T00:00Z.                *)

HalfDaysPerDay == 2

\* new Date(due_date).getTime() of the four due dates
Date(s) ==
    CASE s = "2025-04-15" -> 104 * HalfDaysPerDay
      [] s = "2025-06-15" -> 165 * HalfDaysPerDay
      [] s = "2025-09-15" -> 257 * HalfDaysPerDay
      [] s = "2026-01-15" -> 379 * HalfDaysPerDay

\* 30 * 24 * 60 * 60 * 1000 ms
ThirtyDays == 30 * HalfDaysPerDay

\* new Date(): 30.5, 30 and 29.5 days before the second due date, that due
\* date itself, half a day after it, and a day after the last due date
Instants == {269, 270, 271, 330, 331, 760}

\* mutant: the due date is looked at before the paid flag
getQuarterStatusDueFirst(estimate, today) ==
    LET dueDate == Date(estimate.due_date)
    IN  IF dueDate < today THEN "overdue"
        ELSE IF estimate.paid THEN "paid"
        ELSE IF dueDate - today < ThirtyDays THEN "upcoming"
        ELSE "future"

getQuarterStatus(estimate, today) ==
    LET dueDate == Date(estimate.due_date)
    IN  IF estimate.paid THEN "paid"
        ELSE IF dueDate < today THEN "overdue"
        ELSE IF dueDate - today < ThirtyDays THEN "upcoming"
        ELSE "future"

\* Dashboard: useQuery(["quarterlyEstimates"]) reads the cache entry the
\* quarterly page fills
quarterlyEstimates == estimates

\* quarterlyEstimates?.filter(...).length || 0
unpaidQuarters(today) ==
    IF quarterlyEstimates = None THEN 0
    ELSE Cardinality({q \in DOMAIN quarterlyEstimates :
                         /\ ~quarterlyEstimates[q].paid
                         /\ Date(quarterlyEstimates[q].due_date) < today})

---------------------------------------------------------------------------
(* Specifications: one per page, and the whole application *)

Mounted ==
    /\ Mount401k /\ MountDashboard /\ MountQuarterly /\ MountRSU /\ MountEngine
    /\ MountUpload /\ MountSettings

\* the pages of the earlier sections mount no uploader of their own
NoUploader == uploader = "none"

Init401k == page = "/401k" /\ NoUploader /\ Mounted
InitDashboard == page = "/" /\ NoUploader /\ Mounted
InitQuarterly == page = "/quarterly" /\ NoUploader /\ Mounted
InitRSU == page = "/rsu" /\ NoUploader /\ Mounted
InitEngine == page = "/api" /\ NoUploader /\ Mounted
InitSettings == page = "/settings" /\ NoUploader /\ Mounted

\* PaystubsPage mounts PaystubUploader, the Manual tab of RSUPage RSUUploader
InitUpload ==
    /\ \/ page = "/paystubs" /\ uploader = "PaystubUploader"
       \/ page = "/rsu" /\ uploader = "RSUUploader"
    /\ Mounted

Spec401k == Init401k /\ [][Next401k]_vars
SpecDashboard == InitDashboard /\ [][NextDashboard]_vars
SpecQuarterly == InitQuarterly /\ [][NextQuarterly]_vars
SpecRSU == InitRSU /\ [][NextRSU]_vars
SpecEngine == InitEngine /\ [][NextEngine]_vars
SpecUpload == InitUpload /\ [][NextUpload]_vars
SpecSettings == InitSettings /\ [][NextSettings]_vars

\* the interval callback keeps running, and the requests are answered
FairSettings ==
    /\ WF_vars(PollTick)
    /\ WF_vars(\E ok \in BOOLEAN : \E popup \in Popups :
                  AuthUrlSettled(ok, popup))
    /\ WF_vars(\E ok \in BOOLEAN : TestEmailSettled(ok))

SpecSettingsFair == SpecSettings /\ FairSettings

Init ==
    \/ Init401k \/ InitDashboard \/ InitQuarterly \/ InitRSU \/ InitEngine
    \/ InitSettings \/ InitUpload

Next ==
    \/ Next401k \/ NextDashboard \/ NextQuarterly \/ NextRSU \/ NextEngine
    \/ NextUpload \/ NextSettings

Spec == Init /\ [][Next]_vars

---------------------------------------------------------------------------
(* Claims about the 401(k) page and the contribution slider *)

NonNegativeInputs ==
    /\ percent \in 0..(InputMax * PercentSteps)
    /\ formData.annual_salary >= 0
    /\ formData.ytd_contribution >= 0
    /\ formData.remaining_pay_periods >= 0

\* C1: for a percent in [0,100] and non-negative salary, YTD contribution and
\* remaining pay periods, the projected year-end contribution is
\* min(max_contribution, ytd + salary/26 * percent/100 * periods), never
\* above max_contribution, and every point of the projection series is
\* capped at the same limit.
C1_ProjectionCapped ==
    NonNegativeInputs =>
        LET cap == IF formData.age >= 50 THEN 3100000 * 26 ELSE 2350000 * 26
            paced == formData.ytd_contribution * 26
                     + formData.annual_salary * 50 * percent
                       * formData.remaining_pay_periods
        IN  /\ projectedYearEnd = (IF paced < cap THEN paced ELSE cap)
            /\ projectedYearEnd <= cap
            /\ DOMAIN projectionData = 0..formData.remaining_pay_periods
            /\ \A i \in DOMAIN projectionData :
                  /\ projectionData[i].contribution <= cap
                  /\ projectionData[i].max * 26 = cap

\* the cap is in effect: the pace overshoots the limit of a catch-up saver
\* after the percent was moved
C1_Witness ==
    /\ NonNegativeInputs
    /\ percent = 27
    /\ formData.age = 50
    /\ formData.remaining_pay_periods = 22
    /\ Uncapped(ytdContribution, annualSalary, percent, remainingPayPeriods)
          > Ticks(SliderEffectiveMax)
    /\ projectedYearEnd = Ticks(SliderEffectiveMax)

\* the projection at a percent, as the slider would show it for the form
ProjectionAt(pct) ==
    CapAt(Uncapped(formData.ytd_contribution, formData.annual_salary, pct,
                   formData.remaining_pay_periods), effectiveMax)

\* C2: for the default inputs (age 35, salary 450000, ytd 2711.55, 22 pay
\* periods) the recommendation the page shows is the minimal percent reaching
\* its projected year-end contribution, which does not exceed the cap.
C2_RecommendedMinimal ==
    (/\ formData = DefaultFormData
     /\ pending = Null
     /\ optimization \in {Null, Optimize(formData)}) =>
        /\ effectiveMax = 2350000
        /\ effectiveMax - formData.ytd_contribution = 2078845
        /\ ProjectionAt(result.recommended_percent) <= Ticks(effectiveMax)
        /\ \A q \in 0..(result.recommended_percent - 1) :
              ProjectionAt(q) # ProjectionAt(result.recommended_percent)

\* C3: the remaining room that is displayed is max(0, max_contribution - ytd)
\* and so never negative, also for a YTD contribution above the limit.
C3_RemainingRoomNonNegative ==
    /\ PageRemainingRoom = Max(0, effectiveMax - formData.ytd_contribution)
    /\ SliderRemainingRoom = Max(0, effectiveMax - formData.ytd_contribution)
    /\ PageRemainingRoom >= 0
    /\ SliderRemainingRoom >= 0

\* C4: the limit is 23,500 below age 50 and 31,000 from age 50 on (50
\* included), and the page's limit and the slider's cap are the same value.
C4_MaxContribution ==
    /\ effectiveMax = (IF formData.age < 50 THEN 2350000 ELSE 2350000 + 750000)
    /\ SliderEffectiveMax = effectiveMax
    /\ \A i \in DOMAIN projectionData : projectionData[i].max = effectiveMax

\* age exactly 50 was entered and the catch-up limit is in force
C4_Witness ==
    /\ formData.age = 50
    /\ effectiveMax = 3100000
    /\ SliderEffectiveMax = 3100000

---------------------------------------------------------------------------
(* Claims about the quarterly page and the quarterly calendar *)

\* C5: the safe-harbor requirement shown with the estimates is
\* min(0.9 * annual liability, 1.1 * prior-year liability), the annual
\* liability being the sum of the four quarterly totals; the 90% figure of
\* the current year is 0.9 times that annual amount.
C5_SafeHarborRequired ==
    ~isLoading =>
        /\ totalAnnual = SumTotalAmount(displayEstimates, 4)
        /\ CurrentYearRequired10 = 9 * totalAnnual
        /\ PriorYearRequired10 = 11 * PriorYearLiability

\* the estimates on the screen are the ones the server computes now
FreshEstimates ==
    estimates # None /\ estimates = EstimatesOf(srvAnnual, srvPaid)

C7_MarkPaidCarriedOut ==
    saveOutcome # Null =>
        LET amount == saveOutcome.amount
        IN  (/\ saveOutcome.quarter \in Quarters
             /\ ~isNaN(amount)
             /\ amount[1] >= 0) => saveOutcome.sent

C9_ConcurrentSerialized ==
    \A q \in raced :
        (~InFlight(q) /\ lastApplied[q] # None) =>
            /\ srvPaid[q].paid
            /\ srvPaid[q].paid_amount # None
            /\ srvPaid[q].paid_amount[1] \in carried[q]
            /\ srvPaid[q].paid_amount = lastApplied[q]
            /\ \A r \in Quarters \ {q} :
                  carried[r] = {} => srvPaid[r] = Unpaid

\* two requests with different amounts raced for a quarter and both were
\* applied
C9_Witness ==
    \E q \in raced :
        /\ Cardinality(carried[q]) = 2
        /\ sentCount = 2
        /\ inflight = <<>>
        /\ srvPaid[q].paid
        /\ srvPaid[q].paid_amount[1] \in carried[q]
        /\ \E r \in Quarters \ {q} : srvPaid[r] = Unpaid

---------------------------------------------------------------------------
(* Claims about the dashboard *)

\* C10: refund_or_owed = withheld_ytd - total_tax, positive meaning a refund
\* and negative an additional amount owed, and the Dashboard card and the
\* "Withheld vs Owed" chart label one projection the same way for every
\* withheld_ytd and projected liability.
C10_RefundLabelledAlike ==
    /\ data.refund_or_owed = data.withheld_ytd - data.total_tax
    /\ CardShowsRefund(data) <=> ChartShowsRefund(data)
    /\ CardValue(data) = ChartValue(data)

---------------------------------------------------------------------------
(* Claims about the RSU summary and the RSU page *)

PendingConsistent(summary) ==
    /\ summary.total_shares_pending
          = summary.total_shares_granted - summary.total_shares_vested
    /\ summary.total_shares_pending = SumShares(summary.upcoming_vests)

\* C11: after any sequence of create, update, delete and CSV-upload
\* operations and for any "now", the summary has total_shares_pending =
\* total_shares_granted - total_shares_vested, and that is the sum of
\* shares_vesting over the upcoming events; the page's totals show it.
C11_PendingIsGrantedLessVested ==
    /\ PendingConsistent(Summarize(srvEvents, now))
    /\ vestingSummary # None =>
          /\ PendingConsistent(vestingSummary[1])
          /\ totals.pending = totals.shares - totals.vested
          /\ totals.pending = SumShares(UpcomingVests)

\* a summary with vested and pending shares is shown after two mutations
C11_Witness ==
    /\ vestingSummary # None
    /\ mutationCount = 2
    /\ rsuInflight = <<>>
    /\ totals.vested > 0
    /\ totals.pending > 0
    /\ totals.shares = SumShares(srvEvents)

Occurrences(list, e) == Cardinality({k \in DOMAIN list : list[k] = e})

\* C12: summarize puts every event in exactly one of the two lists, past
\* when vesting_date < now and upcoming when vesting_date >= now (an event
\* vesting today is upcoming); no event is dropped or listed twice, and the
\* chart has one point per upcoming event.
C12_PartitionByDate ==
    /\ LET summary == Summarize(srvEvents, now)
       IN  /\ Len(summary.upcoming_vests) + Len(summary.past_vests)
                 = Len(srvEvents)
           /\ \A k \in DOMAIN srvEvents :
                 LET e == srvEvents[k]
                 IN  IF e.vesting_date < now
                     THEN /\ Occurrences(summary.past_vests, e) = 1
                          /\ Occurrences(summary.upcoming_vests, e) = 0
                     ELSE /\ Occurrences(summary.upcoming_vests, e) = 1
                          /\ Occurrences(summary.past_vests, e) = 0
    /\ \A e \in Range(UpcomingVests) \cup Range(PastVests) :
          Occurrences(UpcomingVests, e) + Occurrences(PastVests, e) = 1
    /\ Len(chartData) = Len(UpcomingVests)
    /\ \A k \in DOMAIN chartData :
          chartData[k].shares = UpcomingVests[k].shares_vesting

\* the summary shown was computed today; it lists an event vesting today as
\* upcoming and has past events too
C12_Witness ==
    /\ vestingSummary = Some(Summarize(srvEvents, now))
    /\ \E e \in Range(UpcomingVests) : e.vesting_date = now
    /\ PastVests # <<>>

\* C13: the upcoming events are in ascending order of vesting date and the
\* past events in descending order, so the rows the page shows (at most
\* six of each) are the soonest upcoming and the most recent past vests.
C13_OrderedByDate ==
    /\ \A j, k \in DOMAIN UpcomingVests :
          j < k => UpcomingVests[j].vesting_date <= UpcomingVests[k].vesting_date
    /\ \A j, k \in DOMAIN PastVests :
          j < k => PastVests[j].vesting_date >= PastVests[k].vesting_date
    /\ Len(UpcomingShown) = Min(6, Len(UpcomingVests))
    /\ Len(PastShown) = Min(6, Len(PastVests))
    /\ \A j \in DOMAIN UpcomingShown :
          /\ Occurrences(UpcomingVests, UpcomingShown[j]) = 1
          /\ \A e \in Range(UpcomingVests) \ Range(UpcomingShown) :
                UpcomingShown[j].vesting_date <= e.vesting_date
    /\ \A j \in DOMAIN PastShown :
          /\ Occurrences(PastVests, PastShown[j]) = 1
          /\ \A e \in Range(PastVests) \ Range(PastShown) :
                PastShown[j].vesting_date >= e.vesting_date

\* more upcoming events than rows, on different dates and stored out of
\* order
C13_Witness ==
    /\ Len(UpcomingVests) > 6
    /\ UpcomingVests[1].vesting_date < UpcomingVests[Len(UpcomingVests)].vesting_date
    /\ srvEvents # <<>>
    /\ srvEvents[1].vesting_date > UpcomingVests[1].vesting_date

---------------------------------------------------------------------------
(* Claims about the bracket calculator and the FICA calculator *)

TaxReturned == taxResult # Null /\ taxResult.status = "ok"

\* C14: for every bracket table with non-negative rates (monotonic or not)
\* and every deduction >= 0, tax(x) >= 0 for every income x >= 0, and
\* x <= y implies tax(x) <= tax(y).
C14_TaxNonNegativeMonotonic ==
    TaxReturned =>
        /\ taxResult.tax[1] >= 0
        /\ \A k \in DOMAIN taxResult.contributions :
              taxResult.contributions[k] >= 0
        /\ \A y \in Incomes :
              taxInput.income <= y =>
                 taxResult.tax[1]
                    <= tax(y, BracketTables[taxInput.table],
                           taxInput.deduction).tax[1]

\* a tax on the table with non-monotonic rates, with a deduction, in a
\* bracket whose rate is 0
C14_Witness ==
    /\ TaxReturned
    /\ BracketTables[taxInput.table] = NonMonotonicTable
    /\ taxInput.deduction > 0
    /\ taxResult.taxable[1] > 96950
    /\ taxResult.tax[1] > 0

\* the taxable amount is the upper bound of bracket k
AtBoundary(k) ==
    /\ TaxReturned
    /\ k \in DOMAIN BracketTables[taxInput.table]
    /\ BracketTables[taxInput.table][k].upper_bound
          = Some(taxResult.taxable[1])

\* C15: for an income that, after the deduction, equals the upper bound of
\* bracket k, the tax is the sum of the full contributions (upper -
\* previous upper) * rate of the brackets 1..k, and bracket k + 1
\* contributes 0: the threshold itself is taxed at the lower rate.
C15_ExactAtBoundary ==
    \A k \in 1..7 :
        AtBoundary(k) =>
            LET table == BracketTables[taxInput.table]
                full == [i \in 1..k |->
                            (table[i].upper_bound[1] - PreviousUpper(table, i))
                            * table[i].rate]
            IN  /\ taxResult.tax[1] = SumSeq(full)
                /\ \A i \in 1..k : taxResult.contributions[i] = full[i]
                /\ \A i \in DOMAIN table :
                      i > k => taxResult.contributions[i] = 0

\* income 126,950 less the deduction of 30,000 is the upper bound of the
\* second federal bracket
C15_Witness ==
    /\ AtBoundary(2)
    /\ BracketTables[taxInput.table] = FederalMFJ
    /\ taxInput.deduction = 30000
    /\ taxResult.tax[1] = 238500 + 877200

FederalAt96950 ==
    /\ TaxReturned
    /\ BracketTables[taxInput.table] = FederalMFJ
    /\ taxInput.deduction = 0
    /\ taxInput.income = 96950

\* C16: with the Federal MFJ 2025 table and no deduction, the tax on an
\* income of exactly $96,950 is exactly $27,228 = $2,385 + $8,772 + $16,071.
C16_TaxAt96950 ==
    FederalAt96950 => taxResult.tax[1] = 2722800

\* C16 (amended): with the Federal MFJ 2025 table and no deduction, the tax
\* on an income of exactly $96,950 is exactly $11,157 = $2,385 + $8,772,
\* the 22% bracket contributing nothing.
C16_TaxAt96950Amended ==
    FederalAt96950 =>
        /\ taxResult.tax[1] = 1115700
        /\ taxResult.contributions
              = <<238500, 877200, 0, 0, 0, 0, 0>>

C16_Witness == FederalAt96950 /\ taxResult.tax # None

\* C17: tax with income < 0 fails with InvalidInput and returns no tax
\* amount, the income is never clamped to 0; a non-negative income below
\* the deduction is accepted and has taxable = 0.
C17_NegativeIncomeRejected ==
    taxResult # Null =>
        /\ taxInput.income < 0 =>
              /\ taxResult.status = "InvalidInput"
              /\ taxResult.tax = None
              /\ taxResult.taxable = None
        /\ (taxInput.income >= 0 /\ taxInput.income < taxInput.deduction) =>
              /\ taxResult.status = "ok"
              /\ taxResult.taxable = Some(0)
              /\ taxResult.tax = Some(0)
        /\ taxInput.income >= 0 => taxResult.status = "ok"

\* a negative income was rejected although the deduction would have
\* brought any income below 30,000 to a taxable amount of 0
C17_Witness ==
    /\ taxResult # Null
    /\ taxInput.income < 0
    /\ taxInput.deduction = 30000
    /\ taxResult.status = "InvalidInput"

\* the Settings page: Social Security Wage Base $176,100
SettingsWageBase == 176100

\* C18: for every income >= the Social Security wage base,
\* social_security is wage_base * ss_rate (176,100 * 6.2%) exactly, the
\* same for all such incomes; below the wage base it is income * ss_rate.
C18_SocialSecurityCapped ==
    ficaResult # Null =>
        /\ FicaConfig2025.wage_base = SettingsWageBase
        /\ IF ficaIncome[1] >= 176100
           THEN ficaResult.social_security = 176100 * 620
           ELSE ficaResult.social_security = ficaIncome[1] * 620

\* fica was asked for an income above the wage base
C18_Witness ==
    /\ ficaResult # Null
    /\ ficaIncome[1] > 176100
    /\ ficaResult.social_security = 109182000

\* C19: additional_medicare is 0 for every income <= the threshold
\* (250,000, the threshold included) and (income - threshold) * 0.9% above.
C19_AdditionalMedicare ==
    ficaResult # Null =>
        IF ficaIncome[1] <= 250000
        THEN ficaResult.additional_medicare = 0
        ELSE ficaResult.additional_medicare = (ficaIncome[1] - 250000) * 90

\* fica(250,001): 0.9% of one dollar
C19_Witness ==
    /\ ficaResult # Null
    /\ ficaIncome = Some(250001)
    /\ ficaResult.additional_medicare = 90

---------------------------------------------------------------------------
(* Claims about the projection *)

---------------------------------------------------------------------------
(* Claims about the end of the pay year *)

\* C21: with remaining_pay_periods = 0 the optimizer's answer is a result
\* (no division by zero) whose recommended_percent is the request's
\* current_contribution_percent and whose projected year-end contribution
\* is min(max_contribution, ytd_contribution); the slider's projected
\* year-end contribution, and its only chart point, are
\* min(effectiveMax, ytdContribution) whatever the percent held.
C21_ZeroPayPeriods ==
    /\ [](page = "/401k" /\ remainingPayPeriods = 0 =>
            /\ projectedYearEnd
                  = Min(Ticks(SliderEffectiveMax), Ticks(ytdContribution))
            /\ DOMAIN projectionData = {0}
            /\ projectionData[0].contribution = projectedYearEnd)
    /\ [][(/\ pending # Null
           /\ optimization' # Null
           /\ pending.remaining_pay_periods = 0)
          => /\ optimization'.recommended_percent
                   = pending.current_contribution_percent
             /\ optimization'.projected_year_end_contribution
                   = Min(Ticks(optimization'.max_contribution),
                         Ticks(pending.ytd_contribution))]_vars

\* the optimizer answered a request with no pay period left and the slider
\* stands at 75%: both projections are the year-to-date contribution
C21_Witness ==
    /\ page = "/401k"
    /\ optimization # Null
    /\ formData.remaining_pay_periods = 0
    /\ formData.ytd_contribution = 271155
    /\ optimization.recommended_percent = formData.current_contribution_percent
    /\ optimization.projected_year_end_contribution = Ticks(271155)
    /\ percent = 150
    /\ projectedYearEnd = Ticks(271155)

---------------------------------------------------------------------------
(* Claims about the uploaders *)

\* C22: between the start of handleUpload and its completion the selected
\* file is neither cleared nor replaced, and the file a successful upload
\* clears is the file that was uploaded.
C22_SelectionHeldDuringUpload ==
    /\ [][isUploading /\ isUploading' => file' = file]_vars
    /\ [](uploadOutcome # Null /\ uploadOutcome.step = "ok"
             => uploadOutcome.fileBefore = uploadOutcome.sent)

UploadSettledNow ==
    uploadOutcome # Null /\ uploadOutcome.step \in Responses

UploadStartedNow ==
    /\ uploadOutcome # Null
    /\ uploadOutcome.step = "called"
    /\ uploadOutcome.requests = 1

\* C24: isUploading is true exactly while an upload request is in flight,
\* from the start of handleUpload until the API call settles; every upload
\* that settles, resolved or rejected, ends with isUploading false; and at
\* most one upload request of the uploader is in flight at any time.
C24_UploadingWhileInFlight ==
    /\ uploader \in Uploaders =>
          /\ Len(uploadInflight) <= 1
          /\ isUploading <=> Len(uploadInflight) = 1
    /\ UploadStartedNow =>
          ~uploadOutcome.uploadingBefore /\ uploadOutcome.uploadingAfter
    /\ UploadSettledNow =>
          uploadOutcome.uploadingBefore /\ ~uploadOutcome.uploadingAfter

\* the second upload of the uploader was rejected and has just settled
C24_Witness ==
    /\ UploadSettledNow
    /\ uploadOutcome.step = "network"
    /\ uploadsStarted = 2
    /\ ~isUploading
    /\ uploadInflight = <<>>

\* C25: an upload attempt has exactly two outcomes.  On success the selected
\* file is cleared, error stays null and onUploadSuccess is called exactly
\* once; on failure the file stays selected, error is a non-empty message
\* and onUploadSuccess is not called.  handleUpload with no file selected
\* changes no state and sends no request.
C25_TwoOutcomes ==
    /\ UploadSettledNow /\ uploadOutcome.step = "ok" =>
          /\ uploadOutcome.fileAfter = None
          /\ uploadOutcome.errorAfter = None
          /\ uploadOutcome.calls = 1
    /\ UploadSettledNow /\ uploadOutcome.step # "ok" =>
          /\ uploadOutcome.fileAfter = uploadOutcome.sent
          /\ uploadOutcome.errorAfter # None
          /\ uploadOutcome.errorAfter # Some("")
          /\ uploadOutcome.calls = 0
    /\ (/\ uploadOutcome # Null
        /\ uploadOutcome.step = "called"
        /\ uploadOutcome.fileBefore = None) =>
          /\ uploadOutcome.fileAfter = None
          /\ uploadOutcome.errorAfter = uploadOutcome.errorBefore
          /\ uploadOutcome.uploadingAfter = uploadOutcome.uploadingBefore
          /\ uploadOutcome.requests = 0
          /\ uploadOutcome.calls = 0

\* a picked file that is no PDF for PaystubUploader, no CSV for RSUUploader
Unacceptable(f) ==
    \/ f = None
    \/ /\ uploader = "PaystubUploader"
       /\ f[1].type # "application/pdf"
    \/ /\ uploader = "RSUUploader"
       /\ f[1].type # "text/csv"
       /\ SubSeq(f[1].name, Len(f[1].name) - 3, Len(f[1].name))
             # <<".", "c", "s", "v">>

\* C26: the selected file, and every file sent to the upload endpoint, is a
\* PDF in PaystubUploader and a CSV (by type or by name) in RSUUploader; a
\* rejected drop or selection sets the error and leaves the file selected
\* before unchanged.
C26_OnlyAcceptedFiles ==
    /\ [](/\ ~Unacceptable(file) \/ file = None
          /\ \A i \in DOMAIN uploadInflight :
                ~Unacceptable(Some(uploadInflight[i])))
    /\ [][\A f \in PickedFiles :
             (handleDrop(f) \/ handleFileSelect(f)) /\ Unacceptable(f)
                => file' = file /\ error' # None /\ error' # Some("")]_vars

\* a CSV known by its name only is selected in RSUUploader and a file
\* dropped after it was rejected
C26_Witness ==
    /\ uploader = "RSUUploader"
    /\ file = Some(File(<<"g", ".", "c", "s", "v">>,
                        "application/vnd.ms-excel"))
    /\ error = Some("Please upload a CSV file")

---------------------------------------------------------------------------
(* Claims about the Settings page *)

\* C23: whenever the E*Trade status is 'connecting' it eventually becomes
\* 'connected' or 'disconnected', the interval callback running again and
\* again: also when window.open returned no popup and when the popup is
\* never closed.
C23_ConnectingEnds ==
    (etradeStatus = "connecting")
        ~> (etradeStatus \in {"connected", "disconnected"})

---------------------------------------------------------------------------
(* Claims about the quarterly calendar *)

\* C27: at most one quarter is in edit mode at a time; onMarkPaid(quarter,
\* amount) is invoked only for a quarter that is unpaid in the rendered
\* estimates and only with a finite amount > 0; a Save with an empty,
\* non-numeric, zero or negative amount invokes nothing and leaves the
\* editor open; a successful Save closes the editor and clears the amount.
C27_SaveGuarded ==
    /\ [](/\ Cardinality({q \in Quarters :
                             Rendered(q) /\ editingQuarter = Some(q)}) <= 1
          /\ saveOutcome # Null /\ saveOutcome.sent =>
                /\ saveOutcome.quarter \in DOMAIN displayEstimates
                /\ ~displayEstimates[saveOutcome.quarter].paid
                /\ saveOutcome.amount # NaN
                /\ saveOutcome.amount[1] > 0
                /\ inflight # <<>>
                /\ inflight[Len(inflight)].quarter = saveOutcome.quarter
                /\ inflight[Len(inflight)].amount = saveOutcome.amount[1]
                /\ editingQuarter = None
                /\ paymentAmount = <<>>
          /\ saveOutcome # Null /\ ~saveOutcome.sent =>
                /\ saveOutcome.amount = NaN \/ saveOutcome.amount[1] <= 0
                /\ editingQuarter = Some(saveOutcome.quarter)
                /\ Rendered(saveOutcome.quarter))
    /\ [][/\ Len(inflight') > Len(inflight) =>
                saveOutcome' # Null /\ saveOutcome'.sent
          /\ saveOutcome' # Null /\ ~saveOutcome'.sent =>
                UNCHANGED <<inflight, sentCount, editingQuarter,
                            paymentAmount>>]_vars

\* after a Save that sent a request, Save is clicked with -5 typed for
\* another quarter: nothing more is sent and the editor stays open
C27_Witness ==
    /\ saveOutcome # Null
    /\ ~saveOutcome.sent
    /\ paymentAmount = <<"-", "5">>
    /\ editingQuarter = Some(saveOutcome.quarter)
    /\ sentCount = 1
    /\ Len(inflight) = 1
    /\ inflight[1].quarter # saveOutcome.quarter

StatusOf(q, t) == getQuarterStatus(displayEstimates[q], t)

\* C28: getQuarterStatus gives each estimate exactly one status with the
\* priority paid, then overdue (due date before now), then upcoming (due in
\* less than 30 days), then future, so a paid quarter is never overdue; for
\* the same estimates and the same instant the number of past-due payments
\* the Dashboard reports is the number of quarters the calendar shows as
\* overdue.
C28_StatusAndOverdueCount ==
    \A t \in Instants :
        /\ \A q \in DOMAIN displayEstimates :
              LET e == displayEstimates[q]
                  wait == Date(e.due_date) - t
              IN  /\ StatusOf(q, t) \in {"paid", "overdue", "upcoming", "future"}
                  /\ StatusOf(q, t) = "paid" <=> e.paid
                  /\ StatusOf(q, t) = "overdue" <=> ~e.paid /\ wait < 0
                  /\ StatusOf(q, t) = "upcoming" <=>
                        ~e.paid /\ wait >= 0 /\ wait < 60
                  /\ StatusOf(q, t) = "future" <=> ~e.paid /\ wait >= 60
        /\ estimates # None =>
              unpaidQuarters(t)
                 = Cardinality({q \in DOMAIN displayEstimates :
                                   StatusOf(q, t) = "overdue"})

\* half a day after the second due date: the first quarter is paid and past
\* due, the second is the one payment overdue, and 29.5 days before that due
\* date the second quarter was upcoming
C28_Witness ==
    /\ estimates # None
    /\ estimates[1].paid
    /\ StatusOf(1, 331) = "paid"
    /\ StatusOf(2, 331) = "overdue"
    /\ StatusOf(3, 331) = "future"
    /\ StatusOf(2, 271) = "upcoming"
    /\ unpaidQuarters(331) = 1

---------------------------------------------------------------------------
(* Claims about the manual form of the RSU page *)

FormReset ==
    /\ editingEvent' = None
    /\ ~showManualForm'
    /\ rsuFormData'.grant_id = ""
    /\ rsuFormData'.vesting_date = <<>>
    /\ rsuFormData'.shares_vesting = <<>>

\* C29: editingEvent non-null implies that the manual form is shown; a
\* submit sends an update for editingEvent.id exactly when an event was
\* opened for edit, and a create otherwise; after Cancel, after toggling the
\* form closed and after a successful create or update, editingEvent is
\* null, the form is hidden and its fields are empty.
C29_EditingImpliesFormShown ==
    /\ [](editingEvent # None => showManualForm)
    /\ [][/\ handleSubmit =>
                LET request == rsuInflight'[Len(rsuInflight')]
                IN  IF editingEvent # None
                    THEN /\ request.kind = "update"
                         /\ request.eventId = editingEvent[1].id
                    ELSE request.kind = "create"
          /\ resetForm => FormReset
          /\ showManualForm /\ ToggleManualForm => FormReset
          /\ \A i \in DOMAIN rsuInflight :
                (/\ RsuMutationSettled(i, TRUE)
                 /\ rsuInflight[i].kind \in {"create", "update"}
                 /\ Accepted(rsuInflight[i])) => FormReset]_vars

\* an event was opened for edit and the form submitted: the update request
\* for that event is in flight
C29_Witness ==
    /\ editingEvent # None
    /\ showManualForm
    /\ srvEvents # <<>>
    /\ \E i \in DOMAIN rsuInflight :
          /\ rsuInflight[i].kind = "update"
          /\ rsuInflight[i].eventId = editingEvent[1].id

---------------------------------------------------------------------------
(* Claims about the percent the contribution slider holds *)

\* C30: the contribution percent held by ContributionSlider, which is the
\* value it reports through onPercentChange, is within [0, 100] in every
\* reachable state: for every currentPercent the page passes, and after
\* any sequence of number-input edits and slider moves.
C30_PercentInRange ==
    page = "/401k" => percent \in 0..(100 * 2)

\* 125 was typed into the number input and held as 100, while the page
\* passes a currentPercent of 125
C30_Witness ==
    /\ page = "/401k"
    /\ percent = 200
    /\ formData.current_contribution_percent = 250

===========================================================================
